---- MODULE Spec2Model ----
(***************************************************************************)
(* Randomized Prim maze generator (src/MazeGenerator/main.cpp).             *)
(* The Grid object is the state; generateMaze() is split at its statement   *)
(* boundaries (start, choose frontier cell, connect, expand, loop exit) and *)
(* print() is one step.  rand() is a nondeterministic draw.                 *)
(***************************************************************************)
EXTENDS Integers, Sequences, FiniteSets

\* ---- bounds of the model ----
MaxWidth == 5
MaxHeight == 5
MaxPrints == 2

\* ---- enum class Cell ----
Wall == "Wall"
Path == "Path"

VARIABLES
    width,               \* Grid::_width
    height,              \* Grid::_height
    cells,               \* Grid::_cells: sequence of rows, each a sequence of Cell
    frontierCells,       \* local of generateMaze: std::vector<Position>
    startPos,            \* local of generateMaze
    randomFrontierIndex, \* local of the loop body (0-based, as in the source)
    randomFrontierPos,   \* local of the loop body
    randomNeighbour,     \* local of the if block of the loop body
    inBetweenPos,        \* local of the if block of the loop body
    pc,                  \* position inside main / generateMaze
    iterations,          \* number of completed loop iterations (history)
    accessed,            \* positions handed to cellAtPosition by the last step (history)
    everInFrontier,      \* positions that have been in frontierCells so far (history)
    chosen,              \* positions picked as randomFrontierPos so far (history)
    out                  \* what each print() call wrote to std::cout, one entry per call

vars == <<width, height, cells, frontierCells, startPos, randomFrontierIndex,
          randomFrontierPos, randomNeighbour, inBetweenPos, pc, iterations,
          accessed, everInFrontier, chosen, out>>

\* struct Position
Pos(r, c) == [row |-> r, col |-> c]

\* value of a Position local that is not in scope
NoPosition == Pos(-1, -1)

\* Position::operator==
PosEq(a, b) == a.row = b.row /\ a.col = b.col

\* Grid::isPositionInGrid
IsPositionInGrid(pos) ==
    pos.row >= 0 /\ pos.row < height /\ pos.col >= 0 /\ pos.col < width

\* Grid::cellAtPosition used as an rvalue; the assertion guards the vector access
CellAtPosition(c, pos) ==
    IF IsPositionInGrid(pos) THEN c[pos.row + 1][pos.col + 1] ELSE "AssertionFailed"

SetPathByValue(c, pos) == c

SetPathFreshRow(c, pos) ==
    IF IsPositionInGrid(pos)
    THEN [c EXCEPT ![pos.row + 1] = [k \in 1..Len(@) |-> IF k = pos.col + 1 THEN Path ELSE Wall]]
    ELSE c

\* cellAtPosition(pos) = Cell::Path
SetPath(c, pos) ==
    IF IsPositionInGrid(pos)
    THEN [c EXCEPT ![pos.row + 1][pos.col + 1] = Path]
    ELSE c

\* the assertion of cellAtPosition holds for every position a step hands to it
AssertOk(acc) == \A p \in acc : IsPositionInGrid(p)

\* the four step-2 positions in the order the source tests them
StepTwoPositions(pos) ==
    << Pos(pos.row, pos.col - 2), Pos(pos.row, pos.col + 2),
       Pos(pos.row - 2, pos.col), Pos(pos.row + 2, pos.col) >>

ProbedPositionsUnguarded(pos) == StepTwoPositions(pos)

ProbedPositionsNoBottom(pos) ==
    SelectSeq(SubSeq(StepTwoPositions(pos), 1, 3), IsPositionInGrid)

ProbedPositionsStepOne(pos) ==
    SelectSeq(<< Pos(pos.row, pos.col - 1), Pos(pos.row, pos.col + 1),
                 Pos(pos.row - 1, pos.col), Pos(pos.row + 1, pos.col) >>,
              IsPositionInGrid)

\* the positions for which the left operand of && holds, i.e. those that
\* frontierCellsForPositionMatchingCell hands to cellAtPosition
ProbedPositions(pos) == SelectSeq(StepTwoPositions(pos), IsPositionInGrid)

\* Grid::frontierCellsForPositionMatchingCell
FrontierCellsForPositionMatchingCell(c, pos, cell) ==
    LET Matches(p) == CellAtPosition(c, p) = cell
    IN  SelectSeq(ProbedPositions(pos), Matches)

PositionBetweenNoOffset(frontierPos, cellPos) == cellPos

PositionBetweenAway(frontierPos, cellPos) ==
    IF cellPos.row < frontierPos.row THEN Pos(cellPos.row - 1, cellPos.col)
    ELSE IF cellPos.row > frontierPos.row THEN Pos(cellPos.row + 1, cellPos.col)
    ELSE IF cellPos.col < frontierPos.col THEN Pos(cellPos.row, cellPos.col - 1)
    ELSE IF cellPos.col > frontierPos.col THEN Pos(cellPos.row, cellPos.col + 1)
    ELSE cellPos

\* Grid::positionBetweenFrontierAndCell
PositionBetweenFrontierAndCell(frontierPos, cellPos) ==
    IF cellPos.row < frontierPos.row THEN Pos(cellPos.row + 1, cellPos.col)
    ELSE IF cellPos.row > frontierPos.row THEN Pos(cellPos.row - 1, cellPos.col)
    ELSE IF cellPos.col < frontierPos.col THEN Pos(cellPos.row, cellPos.col + 1)
    ELSE IF cellPos.col > frontierPos.col THEN Pos(cellPos.row, cellPos.col - 1)
    ELSE cellPos

\* the lambda cellAlreadyInFrontier: std::find over frontierCells
CellAlreadyInFrontier(f, p) == \E i \in 1..Len(f) : PosEq(f[i], p)

RemoveAlreadyInFrontierNone(f, newFrontier) == newFrontier

\* newFrontier.erase(std::remove_if(..., cellAlreadyInFrontier), newFrontier.end())
RemoveAlreadyInFrontier(f, newFrontier) ==
    LET Keep(p) == ~CellAlreadyInFrontier(f, p)
    IN  SelectSeq(newFrontier, Keep)

EraseAtNone(f, i) == f

EraseAtLast(f, i) == SubSeq(f, 1, Len(f) - 1)

\* frontierCells.erase(frontierCells.begin() + i), i 0-based
EraseAt(f, i) == SubSeq(f, 1, i) \o SubSeq(f, i + 2, Len(f))

\* Grid::Grid: height rows of width Wall cells
NewCells(w, h) == [r \in 1..h |-> [k \in 1..w |-> Wall]]

\* bound on the history counter: a cap on the loop for grids of this size
IterationCap == width * height

Init ==
    /\ width \in 1..MaxWidth
    /\ height \in 1..MaxHeight
    /\ cells = NewCells(width, height)
    /\ frontierCells = << >>
    /\ startPos = NoPosition
    /\ randomFrontierIndex = -1
    /\ randomFrontierPos = NoPosition
    /\ randomNeighbour = NoPosition
    /\ inBetweenPos = NoPosition
    /\ pc = "start"
    /\ iterations = 0
    /\ accessed = {}
    /\ everInFrontier = {}
    /\ chosen = {}
    /\ out = << >>

\* where control goes after a step that handed acc to cellAtPosition
Goto(acc, target) == IF AssertOk(acc) THEN target ELSE "aborted"

Range(s) == {s[i] : i \in 1..Len(s)}

\* generateMaze, lines 69-78: pick the start, mark it, compute the first frontier
PickStart ==
    /\ pc = "start"
    /\ \E r \in 0..(height - 1), k \in 0..(width - 1) :
         LET sp == Pos(r, k)
             c1 == SetPath(cells, sp)
             acc == {sp} \cup Range(ProbedPositions(sp))
             frontier == FrontierCellsForPositionMatchingCell(c1, sp, Wall)
         IN  /\ startPos' = sp
             /\ cells' = c1
             /\ frontierCells' = frontierCells \o frontier
             /\ everInFrontier' = everInFrontier \cup Range(frontier)
             /\ accessed' = acc
             /\ pc' = Goto(acc, "loop")
    /\ UNCHANGED <<width, height, randomFrontierIndex, randomFrontierPos, randomNeighbour,
                   inBetweenPos, iterations, chosen, out>>

\* lines 80-84: loop test true, pick a frontier cell and make it a path
ChooseFrontier ==
    /\ pc = "loop"
    /\ frontierCells # << >>
    /\ iterations < IterationCap
    /\ \E i \in 0..(Len(frontierCells) - 1) :
         LET fp == frontierCells[i + 1]
         IN  /\ randomFrontierIndex' = i
             /\ randomFrontierPos' = fp
             /\ cells' = SetPath(cells, fp)
             /\ chosen' = chosen \cup {fp}
             /\ accessed' = {fp}
             /\ pc' = Goto({fp}, "connect")
    /\ UNCHANGED <<width, height, frontierCells, startPos, randomNeighbour, inBetweenPos,
                   iterations, everInFrontier, out>>

\* lines 86-93: connect the chosen cell with one of its path neighbours
Connect ==
    /\ pc = "connect"
    /\ LET neighbours == FrontierCellsForPositionMatchingCell(cells, randomFrontierPos, Path)
           probed == Range(ProbedPositions(randomFrontierPos))
       IN  IF neighbours # << >>
           THEN \E n \in 0..(Len(neighbours) - 1) :
                  LET rn == neighbours[n + 1]
                      between == PositionBetweenFrontierAndCell(rn, randomFrontierPos)
                      acc == probed \cup {between}
                  IN  /\ randomNeighbour' = rn
                      /\ inBetweenPos' = between
                      /\ cells' = SetPath(cells, between)
                      /\ accessed' = acc
                      /\ pc' = Goto(acc, "expand")
           ELSE /\ randomNeighbour' = NoPosition
                /\ inBetweenPos' = NoPosition
                /\ cells' = cells
                /\ accessed' = probed
                /\ pc' = Goto(probed, "expand")
    /\ UNCHANGED <<width, height, frontierCells, startPos, randomFrontierIndex,
                   randomFrontierPos, iterations, everInFrontier, chosen, out>>

\* lines 95-112: extend the frontier without duplicates, drop the processed cell
Expand ==
    /\ pc = "expand"
    /\ LET newFrontier == FrontierCellsForPositionMatchingCell(cells, randomFrontierPos, Wall)
           filtered == RemoveAlreadyInFrontier(frontierCells, newFrontier)
           acc == Range(ProbedPositions(randomFrontierPos))
       IN  /\ frontierCells' = EraseAt(frontierCells \o filtered, randomFrontierIndex)
           /\ everInFrontier' = everInFrontier \cup Range(filtered)
           /\ accessed' = acc
           /\ pc' = Goto(acc, "loop")
    /\ iterations' = iterations + 1
    /\ randomFrontierIndex' = -1
    /\ randomFrontierPos' = NoPosition
    /\ randomNeighbour' = NoPosition
    /\ inBetweenPos' = NoPosition
    /\ UNCHANGED <<width, height, cells, startPos, chosen, out>>

\* line 80 false, line 113: the loop exits and generateMaze returns
LoopExit ==
    /\ pc = "loop"
    /\ frontierCells = << >>
    /\ pc' = "done"
    /\ accessed' = {}
    /\ UNCHANGED <<width, height, cells, frontierCells, startPos, randomFrontierIndex,
                   randomFrontierPos, randomNeighbour, inBetweenPos, iterations,
                   everInFrontier, chosen, out>>

WallGlyph == "█"
PathGlyph == " "
EndLine == "\n"

GlyphSwapped(cell) == IF cell = Wall THEN PathGlyph ELSE WallGlyph

\* the switch of print()
Glyph(cell) == IF cell = Wall THEN WallGlyph ELSE PathGlyph

\* inner loop of print(): one row followed by std::endl
PrintRow(row) == [i \in 1..Len(row) |-> Glyph(row[i])] \o << EndLine >>

RECURSIVE PrintRows(_, _)
\* outer loop of print() from row index i (1-based) on
PrintRows(c, i) == IF i > Len(c) THEN << >> ELSE PrintRow(c[i]) \o PrintRows(c, i + 1)

GridPrintClearing ==
    /\ pc = "done"
    /\ Len(out) < MaxPrints
    /\ out' = Append(out, PrintRows(cells, 1))
    /\ cells' = NewCells(width, height)
    /\ accessed' = {}
    /\ UNCHANGED <<width, height, frontierCells, startPos, randomFrontierIndex,
                   randomFrontierPos, randomNeighbour, inBetweenPos, pc, iterations,
                   everInFrontier, chosen>>

\* Grid::print, called after generateMaze has returned
GridPrint ==
    /\ pc = "done"
    /\ Len(out) < MaxPrints
    /\ out' = Append(out, PrintRows(cells, 1))
    /\ accessed' = {}
    /\ UNCHANGED <<width, height, cells, frontierCells, startPos, randomFrontierIndex,
                   randomFrontierPos, randomNeighbour, inBetweenPos, pc, iterations,
                   everInFrontier, chosen>>

GenerateStep == PickStart \/ ChooseFrontier \/ Connect \/ Expand \/ LoopExit

Next == PickStart \/ ChooseFrontier \/ Connect \/ Expand \/ LoopExit \/ GridPrint

Spec == Init /\ [][Next]_vars

\* generateMaze is straight-line code on one thread: an enabled step is taken
FairSpec == Spec /\ WF_vars(GenerateStep)

\* ---- construction with any dimensions ----

\* how many non-positive values (0, -1, ...) each dimension is tried with
NonPositiveDimensions == 2

\* Grid::Grid with any int arguments: the loops do not run for a non-positive
\* bound, the members keep the arguments, nothing is validated or thrown
InitAnyDimension ==
    /\ width \in (1 - NonPositiveDimensions)..MaxWidth
    /\ height \in (1 - NonPositiveDimensions)..MaxHeight
    /\ cells = NewCells(width, height)
    /\ frontierCells = << >>
    /\ startPos = NoPosition
    /\ randomFrontierIndex = -1
    /\ randomFrontierPos = NoPosition
    /\ randomNeighbour = NoPosition
    /\ inBetweenPos = NoPosition
    /\ pc = "start"
    /\ iterations = 0
    /\ accessed = {}
    /\ everInFrontier = {}
    /\ chosen = {}
    /\ out = << >>

\* generateMaze, lines 72-74, on a grid with a non-positive dimension:
\* rand() % 0 is undefined, and any start position fails isPositionInGrid, so
\* the run ends in the assertion (assertions on) or in an invalid access
PickStartDegenerate ==
    /\ pc = "start"
    /\ (width <= 0 \/ height <= 0)
    /\ pc' \in {"aborted", "crashed"}
    /\ UNCHANGED <<width, height, cells, frontierCells, startPos, randomFrontierIndex,
                   randomFrontierPos, randomNeighbour, inBetweenPos, iterations,
                   accessed, everInFrontier, chosen, out>>

NextAnyDimension ==
    PickStart \/ PickStartDegenerate \/ ChooseFrontier \/ Connect \/ Expand \/ LoopExit
        \/ GridPrint

SpecAnyDimension == InitAnyDimension /\ [][NextAnyDimension]_vars

\* C11: construction with a non-positive width or height is rejected with an
\* InvalidDimension error, and no grid on which generateMaze can run exists.
C11_Rejected ==
    (width <= 0 \/ height <= 0) => pc = "InvalidDimension"

\* ---- derived notions used by the properties ----

Positions == {Pos(r, k) : r \in 0..(height - 1), k \in 0..(width - 1)}

PathCells == {p \in Positions : CellAtPosition(cells, p) = Path}

\* the 4-directional, single-step neighbours of a position
Neighbours4(p) ==
    {Pos(p.row, p.col - 1), Pos(p.row, p.col + 1), Pos(p.row - 1, p.col), Pos(p.row + 1, p.col)}

RECURSIVE Flood(_, _)
\* flood fill over Path cells: seen so far, and the cells added by the last round
Flood(seen, last) ==
    LET more == {q \in (UNION {Neighbours4(p) : p \in last}) \ seen :
                    CellAtPosition(cells, q) = Path}
    IN  IF more = {} THEN seen ELSE Flood(seen \cup more, more)

\* the Path cells joined to p by a chain of 4-adjacent Path cells
ReachableFrom(p) == Flood({p}, {p})

\* number of cells of the step-2 lattice through (0,0): ceil(w/2) * ceil(h/2)
LatticeCount == ((width + 1) \div 2) * ((height + 1) \div 2)

\* C1: when generateMaze has returned, every Path cell is reachable from every
\* other Path cell through a chain of 4-adjacent Path cells.  Stated of the
\* state generateMaze returns in; print calls after it leave the cells alone.
C1_Connectivity ==
    (pc = "done" /\ out = << >>) =>
        LET paths == PathCells
        IN  \A p \in paths : ReachableFrom(p) = paths

C1_Witness ==
    /\ pc = "done"
    /\ out = << >>
    /\ iterations >= 3
    /\ Cardinality(PathCells) >= 7
    /\ ReachableFrom(startPos) = PathCells

\* C2: the while loop of generateMaze eventually exits, and at that point the
\* frontier vector is empty.
C2_Termination == <>(pc = "done" /\ Len(frontierCells) = 0)

C2_Witness ==
    /\ pc = "done"
    /\ Len(frontierCells) = 0
    /\ iterations >= 2

\* C3 as stated: the number of loop iterations is at most (width*height)/4.
C3_QuarterBound == 4 * iterations <= width * height

\* C3 amended: the number of loop iterations is at most
\* ceil(width/2) * ceil(height/2) - 1, the largest step-2 lattice less its start.
C3_LatticeBound == iterations <= LatticeCount - 1

C3_Witness ==
    /\ pc = "done"
    /\ iterations = LatticeCount - 1
    /\ 4 * iterations > width * height

\* C4: in every step a cell that is Path before the step is Path after it.
C4_Monotonic ==
    [][\A r \in 1..height : \A k \in 1..width :
          cells[r][k] = Path => cells'[r][k] = Path]_vars

C4_Witness ==
    /\ pc = "expand"
    /\ iterations >= 1
    /\ Cardinality(PathCells) >= 5

\* C5: every position handed to cellAtPosition lies inside the grid, so the
\* assertion never fails.
C5_BoundsSafety ==
    /\ pc # "aborted"
    /\ \A p \in accessed :
         0 <= p.row /\ p.row < height /\ 0 <= p.col /\ p.col < width

C5_Witness ==
    /\ pc = "expand"
    /\ Cardinality(accessed) >= 3
    /\ \E i \in 1..4 : ~IsPositionInGrid(StepTwoPositions(randomFrontierPos)[i])

\* C6: at the start of every loop iteration and after every iteration's update
\* no position occurs twice in the frontier vector.
C6_NoDuplicates ==
    pc = "loop" =>
        \A i \in 1..Len(frontierCells) : \A j \in 1..Len(frontierCells) :
            PosEq(frontierCells[i], frontierCells[j]) => i = j

C6_Witness ==
    /\ pc = "loop"
    /\ iterations >= 2
    /\ \E i \in 1..Len(frontierCells) :
         Len(FrontierCellsForPositionMatchingCell(cells, frontierCells[i], Path)) >= 2

\* C7: on a grid with width <= 2 and height <= 2 generateMaze runs no loop
\* iteration and returns with the start cell as the only Path cell and an
\* empty frontier.
C7_MinimumGrid ==
    (width <= 2 /\ height <= 2) =>
        /\ iterations = 0
        /\ pc \notin {"connect", "expand"}
        /\ pc = "done" => (PathCells = {startPos} /\ frontierCells = << >>)

C7_Witness ==
    /\ pc = "done"
    /\ width = 2
    /\ height = 2
    /\ PathCells = {startPos}

\* the text of a 3x3 grid whose only Path cell is the centre
CentreText ==
    << WallGlyph, WallGlyph, WallGlyph, EndLine,
       WallGlyph, PathGlyph, WallGlyph, EndLine,
       WallGlyph, WallGlyph, WallGlyph, EndLine >>

\* C9: print emits height lines in row order, each of width glyphs in column
\* order, the wall block for a Wall cell and a space for a Path cell; the 3x3
\* grid with only the centre Path gives 3 lines of 3 glyphs, one space, centred.
C9_Render ==
    \A n \in 1..Len(out) :
        /\ Len(out[n]) = height * (width + 1)
        /\ \A r \in 0..(height - 1) :
             /\ out[n][r * (width + 1) + width + 1] = EndLine
             /\ \A k \in 0..(width - 1) :
                  out[n][r * (width + 1) + k + 1] =
                      IF cells[r + 1][k + 1] = Wall THEN "█" ELSE " "
        /\ (width = 3 /\ height = 3 /\ PathCells = {Pos(1, 1)}) => out[n] = CentreText

C9_Witness ==
    /\ Len(out) >= 1
    /\ width = 3
    /\ height = 3
    /\ PathCells = {Pos(1, 1)}

\* C10: a print call leaves the cells, the width and the height unchanged, and
\* writes the same text as the print call before it.
C10_PureRead ==
    [][Len(out') = Len(out) + 1 =>
          /\ cells' = cells
          /\ width' = width
          /\ height' = height
          /\ Len(out) >= 1 => out'[Len(out')] = out[Len(out)]]_vars

C10_Witness ==
    /\ Len(out) = 2
    /\ iterations >= 3
    /\ out[1] = out[2]

\* a position lies inside the grid, written out from the dimensions
InBounds(p) == 0 <= p.row /\ p.row < height /\ 0 <= p.col /\ p.col < width

\* the positions at exactly distance 2 from p along its row or its column
DistanceTwo(p) ==
    {Pos(p.row, p.col - 2), Pos(p.row, p.col + 2), Pos(p.row - 2, p.col), Pos(p.row + 2, p.col)}

\* C12: at the start of every loop iteration every frontier position is in
\* bounds, is Wall, and has a Path cell at distance 2 along its row or column.
C12_FrontierInvariant ==
    pc = "loop" =>
        \A i \in 1..Len(frontierCells) :
            LET f == frontierCells[i]
            IN  /\ InBounds(f)
                /\ cells[f.row + 1][f.col + 1] = Wall
                /\ \E q \in DistanceTwo(f) : InBounds(q) /\ cells[q.row + 1][q.col + 1] = Path

C12_Witness ==
    /\ pc = "loop"
    /\ iterations >= 2
    /\ Len(frontierCells) >= 3

\* C13: in every loop iteration the chosen frontier cell has a Path cell among
\* its in-bounds step-2 neighbours, so the carving step is never skipped and
\* the iteration carves a midpoint.
C13_NeighbourExists ==
    /\ pc = "connect" =>
          \E q \in DistanceTwo(randomFrontierPos) :
              InBounds(q) /\ cells[q.row + 1][q.col + 1] = Path
    /\ pc = "expand" =>
          /\ inBetweenPos # NoPosition
          /\ InBounds(inBetweenPos)
          /\ cells[inBetweenPos.row + 1][inBetweenPos.col + 1] = Path

C13_Witness ==
    /\ pc = "expand"
    /\ iterations >= 2
    /\ inBetweenPos # NoPosition
    /\ Cardinality({q \in DistanceTwo(randomFrontierPos) :
                       InBounds(q) /\ cells[q.row + 1][q.col + 1] = Path}) >= 2

\* number of occurrences of position p in the sequence f
Count(f, p) == Cardinality({i \in 1..Len(f) : PosEq(f[i], p)})

\* a step that completes a loop iteration
IterationEnds == iterations' = iterations + 1

\* the iteration takes one occurrence of the chosen cell out of the frontier,
\* keeps every other entry, and adds only positions never in the frontier before
RemovesOneAddsNew ==
    \A p \in Range(frontierCells) \cup Range(frontierCells') :
        IF PosEq(p, randomFrontierPos)
        THEN Count(frontierCells', p) = Count(frontierCells, p) - 1
        ELSE \/ Count(frontierCells', p) = Count(frontierCells, p)
             \/ /\ Count(frontierCells, p) = 0
                /\ Count(frontierCells', p) = 1
                /\ p \notin everInFrontier

\* C14 as stated: every iteration removes exactly one element, adds only
\* positions never in the frontier before, and leaves the frontier strictly
\* smaller than it was.
C14_StrictShrink ==
    [][IterationEnds =>
          /\ RemovesOneAddsNew
          /\ Len(frontierCells') < Len(frontierCells)]_vars

\* C14 amended: every iteration removes exactly one element and adds only
\* positions never in the frontier before; the size changes by -1 up to +2.
C14_RemoveOneAddNew ==
    [][IterationEnds =>
          /\ RemovesOneAddsNew
          /\ Len(frontierCells') - Len(frontierCells) \in -1..2]_vars

C14_Witness ==
    /\ pc = "loop"
    /\ iterations = 1
    /\ Len(frontierCells) >= 5

\* p and q have the same row parity and the same column parity
SameParity(p, q) == p.row % 2 = q.row % 2 /\ p.col % 2 = q.col % 2

\* the in-bounds cells of the step-2 lattice through the start cell
StartLattice == {p \in Positions : SameParity(p, startPos)}

\* C15: no 2x2 block of cells is all Path, and every cell whose row parity and
\* column parity both differ from the start cell's stays Wall.
C15_SingleWidth ==
    startPos # NoPosition =>
        /\ \A r \in 1..(height - 1) : \A k \in 1..(width - 1) :
              ~(/\ cells[r][k] = Path     /\ cells[r][k + 1] = Path
                /\ cells[r + 1][k] = Path /\ cells[r + 1][k + 1] = Path)
        /\ \A p \in Positions :
              (p.row % 2 # startPos.row % 2 /\ p.col % 2 # startPos.col % 2)
                  => cells[p.row + 1][p.col + 1] = Wall

C15_Witness ==
    /\ pc = "done"
    /\ width >= 4
    /\ height >= 4
    /\ iterations >= 3
    /\ Cardinality(PathCells) >= 7

\* C16: the iteration that chose index i leaves the frontier equal to the old
\* one without its element i, order kept, followed by the Wall in-bounds step-2
\* neighbours of the chosen cell that were not in it; the chosen cell is gone.
C16_FrontierUpdate ==
    [][IterationEnds =>
          LET i == randomFrontierIndex
              n == Len(frontierCells)
              added == {q \in DistanceTwo(randomFrontierPos) :
                           /\ InBounds(q)
                           /\ cells[q.row + 1][q.col + 1] = Wall
                           /\ Count(frontierCells, q) = 0}
          IN  /\ Len(frontierCells') = n - 1 + Cardinality(added)
              /\ \A j \in 1..i : frontierCells'[j] = frontierCells[j]
              /\ \A j \in (i + 1)..(n - 1) : frontierCells'[j] = frontierCells[j + 1]
              /\ {frontierCells'[j] : j \in n..Len(frontierCells')} = added
              /\ Count(frontierCells', randomFrontierPos) = 0]_vars

C16_Witness ==
    /\ pc = "loop"
    /\ iterations = 2
    /\ Len(frontierCells) >= 5
    /\ \A p \in chosen : Count(frontierCells, p) = 0

\* distance between two positions counted in single steps along rows and columns
Dist(p, q) ==
    (IF p.row >= q.row THEN p.row - q.row ELSE q.row - p.row)
        + (IF p.col >= q.col THEN p.col - q.col ELSE q.col - p.col)

\* C17: for two positions 2 apart along one axis positionBetweenFrontierAndCell
\* returns the position one step from both, whatever the argument order, and
\* for equal arguments that position; every carved midpoint is in bounds and
\* 4-adjacent to the chosen frontier cell and to the chosen neighbour.
C17_Midpoint ==
    /\ pc = "start" =>
          \A a \in Positions :
              /\ PositionBetweenFrontierAndCell(a, a) = a
              /\ \A b \in DistanceTwo(a) :
                    LET m == PositionBetweenFrontierAndCell(a, b)
                    IN  /\ Dist(m, a) = 1
                        /\ Dist(m, b) = 1
                        /\ PositionBetweenFrontierAndCell(b, a) = m
    /\ pc = "expand" =>
          /\ InBounds(inBetweenPos)
          /\ Dist(inBetweenPos, randomFrontierPos) = 1
          /\ Dist(inBetweenPos, randomNeighbour) = 1

C17_Witness ==
    /\ pc = "expand"
    /\ iterations >= 1
    /\ Dist(randomFrontierPos, randomNeighbour) = 2
    /\ inBetweenPos.row # randomFrontierPos.row

IsEven(n) == n % 2 = 0

\* C18 as stated: the start cell and every chosen frontier cell have an even
\* row and an even column, and every carved midpoint has exactly one odd
\* coordinate.
C18_EvenNodes ==
    /\ startPos # NoPosition => (IsEven(startPos.row) /\ IsEven(startPos.col))
    /\ pc \in {"connect", "expand"} =>
          (IsEven(randomFrontierPos.row) /\ IsEven(randomFrontierPos.col))
    /\ pc = "expand" => (IsEven(inBetweenPos.row) # IsEven(inBetweenPos.col))

\* C18 amended: every chosen frontier cell has the row parity and the column
\* parity of the start cell, and every carved midpoint differs from the start
\* cell in the parity of exactly one coordinate.
C18_StartParityNodes ==
    /\ pc \in {"connect", "expand"} => SameParity(randomFrontierPos, startPos)
    /\ pc = "expand" =>
          ((inBetweenPos.row % 2 = startPos.row % 2) # (inBetweenPos.col % 2 = startPos.col % 2))

C18_Witness ==
    /\ pc = "expand"
    /\ iterations >= 1
    /\ ~IsEven(startPos.row)
    /\ ~IsEven(startPos.col)
    /\ ~IsEven(randomFrontierPos.row)

\* ordered pairs of 4-adjacent Path cells
PathLinks == {pq \in PathCells \X PathCells : Dist(pq[1], pq[2]) = 1}

\* C19: every midpoint that an iteration can carve is Wall just before, and on
\* return the Path cells form a tree under 4-adjacency (connected, one link
\* less than cells) of 2*N - 1 cells, N the size of the start cell's lattice.
C19_PerfectMaze ==
    /\ pc = "connect" =>
          \A q \in DistanceTwo(randomFrontierPos) :
              (InBounds(q) /\ cells[q.row + 1][q.col + 1] = Path) =>
                  cells[(q.row + randomFrontierPos.row) \div 2 + 1]
                       [(q.col + randomFrontierPos.col) \div 2 + 1] = Wall
    /\ (pc = "done" /\ out = << >>) =>
          /\ ReachableFrom(startPos) = PathCells
          /\ Cardinality(PathLinks) = 2 * (Cardinality(PathCells) - 1)
          /\ Cardinality(PathCells) = 2 * Cardinality(StartLattice) - 1

C19_Witness ==
    /\ pc = "done"
    /\ out = << >>
    /\ Cardinality(StartLattice) >= 6
    /\ Cardinality(PathCells) = 2 * Cardinality(StartLattice) - 1

\* C20: on return every in-bounds cell with the start cell's row and column
\* parity is Path, and each of them other than the start was the chosen
\* frontier cell of exactly one iteration (as many iterations as chosen cells).
C20_LatticeCoverage ==
    pc = "done" =>
        /\ \A p \in StartLattice : cells[p.row + 1][p.col + 1] = Path
        /\ chosen = StartLattice \ {startPos}
        /\ iterations = Cardinality(chosen)

C20_Witness ==
    /\ pc = "done"
    /\ startPos.row = 1
    /\ Cardinality(chosen) >= 3
    /\ chosen = StartLattice \ {startPos}

====
